---- MODULE Spec2Model ----
(***************************************************************************)
(* Model of test_cases_result_data_transformer:                            *)
(*   src/src/result_analyzer.py  ResultAnalyzer                            *)
(*   src/src/data_processor.py   DataProcessor and its two variants        *)
(*                                                                         *)
(* Python values are tagged records (field t is the Python type name).     *)
(* A call either returns a value, Ok(v), or raises, Raise(exc, msg).       *)
(* Floats are modelled as exact rationals num/den in lowest terms, so      *)
(* binary rounding is outside the model.                                   *)
(***************************************************************************)
EXTENDS Integers, Sequences, FiniteSets, TLC

VARIABLES
    arg,        \* the object handed to ResultAnalyzer(...), or to file_exporter
    analyzer,   \* the constructed ResultAnalyzer, or NoObject
    processor,  \* the DataProcessor instance in use, or NoObject
    file_name,  \* the file name handed to the processor
    call,       \* the last call made: [op |-> ..., a |-> ...]
    ret,        \* what that call returned or raised
    raw_data,   \* the raw content handed to _parse_content
    disk,       \* what the file system holds at the path of file_name
    log         \* the calls the last call made in turn, in order

vars == <<arg, analyzer, processor, file_name, call, ret, raw_data, disk, log>>

----------------------------------------------------------------------------
(* Bounds of the model *)

\* longest "Tests" list enumerated
MaxTests == 2

----------------------------------------------------------------------------
(* Python values *)

None == [t |-> "NoneType"]

PyInt(n) == [t |-> "int", n |-> n]

PyStr(s) == [t |-> "str", s |-> s]

PyList(items) == [t |-> "list", items |-> items]

PyDict(d) == [t |-> "dict", d |-> d]

RECURSIVE Gcd(_, _)
Gcd(a, b) == IF b = 0 THEN a ELSE Gcd(b, a % b)

\* a float num/den (num >= 0, den > 0), kept in lowest terms
PyFloat(num, den) ==
    LET g == Gcd(num, den)
    IN  [t |-> "float", num |-> num \div g, den |-> den \div g]

IsNumber(v) == v.t \in {"int", "float"}

Numer(v) == IF v.t = "int" THEN v.n ELSE v.num

Denom(v) == IF v.t = "int" THEN 1 ELSE v.den

\* a <= b on Python numbers
NumLeq(a, b) == Numer(a) * Denom(b) <= Numer(b) * Denom(a)

\* Python truthiness: `not v`
Falsy(v) ==
    \/ v.t = "NoneType"
    \/ v.t = "dict" /\ DOMAIN v.d = {}
    \/ v.t = "list" /\ v.items = <<>>
    \/ v.t = "str" /\ v.s = ""
    \/ v.t = "int" /\ v.n = 0

\* key in d
HasKey(d, key) == key \in DOMAIN d.d

\* d.get(key, default)
DictGet(d, key, default) == IF HasKey(d, key) THEN d.d[key] ELSE default

Ok(v) == [ok |-> TRUE, v |-> v]

Raise(exc, msg) == [ok |-> FALSE, exc |-> exc, msg |-> msg]

NoObject == [t |-> "unbound"]

NoCall == [op |-> "none", a |-> None]

\* an argument left out of a call, so that its default applies
Omitted == [t |-> "omitted"]

NoReturn == [ok |-> TRUE, v |-> NoObject]

----------------------------------------------------------------------------
(* The containers and records the analyzer is run on *)

StatusValues == {None, PyStr("pass"), PyStr("failed"), PyStr("skipped")}

\* durations in ms as JSON or the CSV parser yield them: integers, or the
\* text the CSV parser keeps for a value that is not all digits
DurationValues == {PyInt(0), PyInt(2), PyInt(5), PyStr("3.14")}

FieldValues(key) == IF key = "status" THEN StatusValues ELSE DurationValues

\* a test record: a dict holding any subset of the two fields the analyzer reads
TestRecords ==
    UNION { { PyDict(f) : f \in { g \in [K -> StatusValues \cup DurationValues] :
                                  \A k \in K : g[k] \in FieldValues(k) } } :
            K \in SUBSET {"status", "durationMs"} }

TestLists == UNION { [1..n -> TestRecords] : n \in 0..MaxTests }

Containers ==
    {None}
    \cup { PyDict([k \in {} |-> None]) }
    \cup { PyDict([k \in {"SomeOtherKey"} |-> PyList(<<>>)]) }
    \cup { PyDict([k \in {"Tests"} |-> PyStr("not a list")]) }
    \cup { PyDict([k \in {"Tests"} |-> None]) }
    \cup { PyDict([k \in {"Tests"} |-> PyList(l)]) : l \in TestLists }
    \cup { PyDict([k \in {"Tests", "SomeOtherKey"} |-> PyList(<<>>)]) }

----------------------------------------------------------------------------
(* ResultAnalyzer *)

\* mutant: tests `not dictionary_data.get("Tests")`, so rejects an empty list
ResultAnalyzer_init_RejectsEmptyTests(dictionary_data) ==
    IF Falsy(dictionary_data) \/ Falsy(DictGet(dictionary_data, "Tests", PyInt(1)))
    THEN Raise("ValueError", "Dictionary data cannot be None or empty")
    ELSE IF ~HasKey(dictionary_data, "Tests")
    THEN Raise("ValueError", "Dictionary must contain a 'Tests' key")
    ELSE IF dictionary_data.d["Tests"].t # "list"
    THEN Raise("TypeError", "'Tests' must be a list")
    ELSE Ok([t |-> "ResultAnalyzer", dictionary_data |-> dictionary_data])

\* ResultAnalyzer.__init__: the new object, or the exception raised
ResultAnalyzer_init(dictionary_data) ==
    IF Falsy(dictionary_data)
    THEN Raise("ValueError", "Dictionary data cannot be None or empty")
    ELSE IF ~HasKey(dictionary_data, "Tests")
    THEN Raise("ValueError", "Dictionary must contain a 'Tests' key")
    ELSE IF dictionary_data.d["Tests"].t # "list"
    THEN Raise("TypeError", "'Tests' must be a list")
    ELSE Ok([t |-> "ResultAnalyzer", dictionary_data |-> dictionary_data])

Tests(self) == DictGet(self.dictionary_data, "Tests", PyList(<<>>))

get_number_of_test_cases(self) == PyInt(Len(Tests(self).items))

\* mutant: test.get("status", required_status), a missing status matches
StatusIs_MissingMatches(test, required_status) ==
    DictGet(test, "status", required_status) = required_status

\* test.get("status") == required_status
StatusIs(test, required_status) == DictGet(test, "status", None) = required_status

count_passed_tests(self, required_status) ==
    LET tests == Tests(self).items
        passed_tests == SelectSeq(tests, LAMBDA test : StatusIs(test, required_status))
    IN  PyInt(Len(passed_tests))

count_failed_tests(self) == count_passed_tests(self, PyStr("failed"))

\* mutant: the comprehension skips the records that lack durationMs
get_test_durations_SkipsMissing(self) ==
    LET tests == DictGet(self.dictionary_data, "Tests", PyList(<<>>))
        having == SelectSeq(tests.items, LAMBDA test : HasKey(test, "durationMs"))
    IN  IF Falsy(tests)
        THEN Raise("ValueError", "No test cases available for duration calculation")
        ELSE Ok(PyList([i \in 1..Len(having) |-> having[i].d["durationMs"]]))

get_test_durations(self) ==
    LET tests == Tests(self)
    IN  IF Falsy(tests)
        THEN Raise("ValueError", "No test cases available for duration calculation")
        ELSE IF \E i \in 1..Len(tests.items) : ~HasKey(tests.items[i], "durationMs")
        THEN Raise("KeyError", "Test case missing required field: 'durationMs'")
        ELSE Ok(PyList([i \in 1..Len(tests.items) |-> tests.items[i].d["durationMs"]]))

RECURSIVE SumSeq(_)
SumSeq(s) == IF s = <<>> THEN 0 ELSE Numer(Head(s)) + SumSeq(Tail(s))

\* mutant: sum(data) // len(data), the quotient rounded down
statistics_mean_FloorDiv(data) ==
    IF \E i \in 1..Len(data) : ~IsNumber(data[i])
    THEN Raise("TypeError", "can't convert type to numerator/denominator")
    ELSE Ok(PyInt(SumSeq(data) \div Len(data)))

\* statistics.mean over a non-empty list: exact, int when the quotient is one
statistics_mean(data) ==
    IF \E i \in 1..Len(data) : ~IsNumber(data[i])
    THEN Raise("TypeError", "can't convert type to numerator/denominator")
    ELSE LET total == SumSeq(data)
             n == Len(data)
         IN  IF total % n = 0 THEN Ok(PyInt(total \div n)) ELSE Ok(PyFloat(total, n))

\* whether min()/max() can order the list: one element is never compared,
\* and numbers compare with numbers, text with text
Comparable(data) ==
    \/ Len(data) = 1
    \/ \A i \in 1..Len(data) : IsNumber(data[i])
    \/ \A i \in 1..Len(data) : data[i].t = "str"

\* the element min()/max() keeps among equal-ordered ones is the first; text
\* values of the model are all the same text
builtin_min(data) ==
    IF ~Comparable(data)
    THEN Raise("TypeError", "'<' not supported between instances")
    ELSE IF ~IsNumber(data[1]) THEN Ok(data[1])
    ELSE Ok(data[CHOOSE i \in 1..Len(data) :
                   /\ \A j \in 1..Len(data) : NumLeq(data[i], data[j])
                   /\ \A j \in 1..(i-1) : data[j] # data[i]])

builtin_max(data) ==
    IF ~Comparable(data)
    THEN Raise("TypeError", "'>' not supported between instances")
    ELSE IF ~IsNumber(data[1]) THEN Ok(data[1])
    ELSE Ok(data[CHOOSE i \in 1..Len(data) :
                   /\ \A j \in 1..Len(data) : NumLeq(data[j], data[i])
                   /\ \A j \in 1..(i-1) : data[j] # data[i]])

calculate_average_duration_of_test_execution(self) ==
    LET durations == get_test_durations(self)
    IN  IF ~durations.ok THEN durations ELSE statistics_mean(durations.v.items)

get_min_test_cases_execution_time(self) ==
    LET durations == get_test_durations(self)
    IN  IF ~durations.ok THEN durations ELSE builtin_min(durations.v.items)

get_max_test_cases_execution_time(self) ==
    LET durations == get_test_durations(self)
    IN  IF ~durations.ok THEN durations ELSE builtin_max(durations.v.items)

\* mutant: the ratio is not scaled to a percentage
get_test_success_rate_Fraction(self) ==
    LET total_tests == Len(self.dictionary_data.d["Tests"].items)
        passed_tests == Len(SelectSeq(self.dictionary_data.d["Tests"].items,
                            LAMBDA test : DictGet(test, "status", None) = PyStr("pass")))
    IN  IF total_tests = 0 THEN PyFloat(0, 1)
        ELSE PyFloat(passed_tests, total_tests)

get_test_success_rate(self) ==
    LET total_tests == get_number_of_test_cases(self).n
        passed_tests == count_passed_tests(self, PyStr("pass")).n
    IN  IF total_tests = 0 THEN PyFloat(0, 1)
        ELSE PyFloat(passed_tests * 100, total_tests)

\* the seven values of the bundle
Bundle(total, passed, failed, average, minimum, maximum, rate) ==
    PyDict([numberOfTestCases |-> total,
            testCasesPassed |-> passed,
            testCasesFailed |-> failed,
            averageDuration |-> average,
            minimumTestCasesExecutionTime |-> minimum,
            maximumTestCasesExecutionTime |-> maximum,
            successRate |-> rate])

\* mutant: a failing duration query is swallowed and zeros are filled in
build_dictionary_of_results_Defaults(self) ==
    LET average == calculate_average_duration_of_test_execution(self)
        minimum == get_min_test_cases_execution_time(self)
        maximum == get_max_test_cases_execution_time(self)
    IN  Ok(Bundle(get_number_of_test_cases(self),
                  count_passed_tests(self, PyStr("pass")),
                  count_failed_tests(self),
                  IF average.ok THEN average.v ELSE PyFloat(0, 1),
                  IF minimum.ok THEN minimum.v ELSE PyFloat(0, 1),
                  IF maximum.ok THEN maximum.v ELSE PyFloat(0, 1),
                  get_test_success_rate(self)))

\* mutant: testCasesFailed is taken to be every test that did not pass
build_dictionary_of_results_FailedIsRest(self) ==
    LET average == calculate_average_duration_of_test_execution(self)
        minimum == get_min_test_cases_execution_time(self)
        maximum == get_max_test_cases_execution_time(self)
    IN  IF ~average.ok THEN average
        ELSE IF ~minimum.ok THEN minimum
        ELSE IF ~maximum.ok THEN maximum
        ELSE Ok(Bundle(get_number_of_test_cases(self),
                       count_passed_tests(self, PyStr("pass")),
                       PyInt(get_number_of_test_cases(self).n
                             - count_passed_tests(self, PyStr("pass")).n),
                       average.v, minimum.v, maximum.v,
                       get_test_success_rate(self)))

\* the dict display evaluates its values in order; the first raise leaves it
build_dictionary_of_results(self) ==
    LET average == calculate_average_duration_of_test_execution(self)
        minimum == get_min_test_cases_execution_time(self)
        maximum == get_max_test_cases_execution_time(self)
    IN  IF ~average.ok THEN average
        ELSE IF ~minimum.ok THEN minimum
        ELSE IF ~maximum.ok THEN maximum
        ELSE Ok(Bundle(get_number_of_test_cases(self),
                       count_passed_tests(self, PyStr("pass")),
                       count_failed_tests(self),
                       average.v,
                       minimum.v,
                       maximum.v,
                       get_test_success_rate(self)))

----------------------------------------------------------------------------
(* The analyzer as a state machine: one construction, then any queries *)

\* comparison targets handed to _count_passed_tests
StatusTargets == {PyStr("pass"), PyStr("failed"), PyStr("skipped"), PyStr("error")}

Init ==
    /\ arg \in Containers
    /\ analyzer = NoObject
    /\ processor = NoObject
    /\ file_name = None
    /\ call = NoCall
    /\ ret = NoReturn
    /\ raw_data = None
    /\ disk = NoObject
    /\ log = <<>>

Construct ==
    /\ call = NoCall
    /\ LET r == ResultAnalyzer_init(arg)
       IN  /\ analyzer' = IF r.ok THEN r.v ELSE NoObject
           /\ ret' = IF r.ok THEN Ok(None) ELSE r
    /\ call' = [op |-> "__init__", a |-> None]
    /\ UNCHANGED <<arg, processor, file_name, raw_data, disk, log>>

\* mutant: the query empties the list of tests it went through
Query_ConsumesTests(op, a, r) ==
    /\ analyzer # NoObject
    /\ call' = [op |-> op, a |-> a]
    /\ ret' = r
    /\ analyzer' = [analyzer EXCEPT !.dictionary_data.d["Tests"].items = <<>>]
    /\ UNCHANGED <<arg, processor, file_name, raw_data, disk, log>>

\* a query on the constructed analyzer; no query assigns to self
Query(op, a, r) ==
    /\ analyzer # NoObject
    /\ call' = [op |-> op, a |-> a]
    /\ ret' = r
    /\ UNCHANGED <<arg, analyzer, processor, file_name, raw_data, disk, log>>

GetNumberOfTestCases ==
    Query("_get_number_of_test_cases", None, Ok(get_number_of_test_cases(analyzer)))

\* required_status: str = "pass"
CountPassedTests ==
    \E a \in StatusTargets \cup {Omitted} :
        LET required_status == IF a = Omitted THEN PyStr("pass") ELSE a
        IN  Query("_count_passed_tests", a,
                  Ok(count_passed_tests(analyzer, required_status)))

CountFailedTests ==
    Query("_count_failed_tests", None, Ok(count_failed_tests(analyzer)))

GetTestDurations ==
    Query("_get_test_durations", None, get_test_durations(analyzer))

CalculateAverageDuration ==
    Query("_calculate_average_duration_of_test_execution", None,
          calculate_average_duration_of_test_execution(analyzer))

GetMinExecutionTime ==
    Query("_get_min_test_cases_execution_time", None,
          get_min_test_cases_execution_time(analyzer))

GetMaxExecutionTime ==
    Query("_get_max_test_cases_execution_time", None,
          get_max_test_cases_execution_time(analyzer))

GetTestSuccessRate ==
    Query("get_test_success_rate", None, Ok(get_test_success_rate(analyzer)))

BuildDictionaryOfResults ==
    Query("build_dictionary_of_results", None, build_dictionary_of_results(analyzer))

Next ==
    \/ Construct
    \/ GetNumberOfTestCases
    \/ CountPassedTests
    \/ CountFailedTests
    \/ GetTestDurations
    \/ CalculateAverageDuration
    \/ GetMinExecutionTime
    \/ GetMaxExecutionTime
    \/ GetTestSuccessRate
    \/ BuildDictionaryOfResults

Spec == Init /\ [][Next]_vars

----------------------------------------------------------------------------
(* Text as the processors handle it: a str whose characters are told apart *)

\* a str given by its characters
PyText(chars) == [t |-> "str", chars |-> chars]

PyBool(b) == [t |-> "bool", b |-> b]

UpperLetters ==
    <<"A", "B", "C", "D", "E", "F", "G", "H", "I", "J", "K", "L", "M",
      "N", "O", "P", "Q", "R", "S", "T", "U", "V", "W", "X", "Y", "Z">>

LowerLetters ==
    <<"a", "b", "c", "d", "e", "f", "g", "h", "i", "j", "k", "l", "m",
      "n", "o", "p", "q", "r", "s", "t", "u", "v", "w", "x", "y", "z">>

LowerChar(c) ==
    IF \E i \in 1..Len(UpperLetters) : UpperLetters[i] = c
    THEN LowerLetters[CHOOSE i \in 1..Len(UpperLetters) : UpperLetters[i] = c]
    ELSE c

\* str.lower()
Lower(chars) == [i \in 1..Len(chars) |-> LowerChar(chars[i])]

IsSpace(c) == c \in {" ", "\t", "\n", "\r"}

RECURSIVE LStrip(_)
LStrip(chars) ==
    IF chars # <<>> /\ IsSpace(Head(chars)) THEN LStrip(Tail(chars)) ELSE chars

RECURSIVE RStrip(_)
RStrip(chars) ==
    IF chars # <<>> /\ IsSpace(chars[Len(chars)])
    THEN RStrip(SubSeq(chars, 1, Len(chars) - 1))
    ELSE chars

\* str.strip()
Strip(chars) == RStrip(LStrip(chars))

\* sep in chars
Contains(chars, sep) == \E i \in 1..Len(chars) : chars[i] = sep

\* str.split(sep): the pieces between the separators, in order
RECURSIVE Split(_, _)
Split(chars, sep) ==
    IF ~Contains(chars, sep) THEN <<chars>>
    ELSE LET i == CHOOSE k \in 1..Len(chars) :
                      chars[k] = sep /\ \A j \in 1..(k-1) : chars[j] # sep
         IN  <<SubSeq(chars, 1, i - 1)>> \o Split(SubSeq(chars, i + 1, Len(chars)), sep)

\* pieces[-1]
Last(pieces) == pieces[Len(pieces)]

\* value in pieces (a list)
InList(value, pieces) == \E i \in 1..Len(pieces) : pieces[i] = value

----------------------------------------------------------------------------
(* DataProcessor *)

JsonFormatProcessor_get_supported_extensions == << <<"j", "s", "o", "n">> >>

CSVFormatProcessor_get_supported_extensions == << <<"c", "s", "v">> >>

\* DataProcessor.__init__ in each concrete class
JsonFormatProcessor ==
    [t |-> "JsonFormatProcessor",
     supported_extensions |-> JsonFormatProcessor_get_supported_extensions]

CSVFormatProcessor ==
    [t |-> "CSVFormatProcessor",
     supported_extensions |-> CSVFormatProcessor_get_supported_extensions]

\* mutant: the extension is what follows the first separator
validate_file_extension_FirstSeparator(self, name) ==
    IF name.t # "str"
    THEN Raise("TypeError", "File name must be a string")
    ELSE IF Strip(name.chars) = <<>>
    THEN Raise("ValueError", "File name cannot be empty")
    ELSE IF ~Contains(name.chars, ".")
    THEN Raise("ValueError", "File '{file_name}' has no extension. Supported: {supported_extensions}")
    ELSE LET file_extension == Split(Lower(name.chars), ".")[2]
         IN  IF ~InList(file_extension, self.supported_extensions)
             THEN Raise("ValueError", "Invalid extension '.{file_extension}'. Supported: {supported_extensions}")
             ELSE Ok(None)

\* DataProcessor._validate_file_extension; messages are the f-string templates
validate_file_extension(self, name) ==
    IF name.t # "str"
    THEN Raise("TypeError", "File name must be a string")
    ELSE IF Strip(name.chars) = <<>>
    THEN Raise("ValueError", "File name cannot be empty")
    ELSE IF ~Contains(name.chars, ".")
    THEN Raise("ValueError", "File '{file_name}' has no extension. Supported: {supported_extensions}")
    ELSE LET file_extension == Last(Split(Lower(name.chars), "."))
         IN  IF ~InList(file_extension, self.supported_extensions)
             THEN Raise("ValueError", "Invalid extension '.{file_extension}'. Supported: {supported_extensions}")
             ELSE Ok(None)

\* mutant: only ValueError is caught
is_supported_file_CatchesValueError(self, name) ==
    LET r == validate_file_extension(self, name)
    IN  IF r.ok THEN Ok(PyBool(TRUE))
        ELSE IF r.exc \in {"ValueError"} THEN Ok(PyBool(FALSE))
        ELSE r

\* DataProcessor.is_supported_file
is_supported_file(self, name) ==
    LET r == validate_file_extension(self, name)
    IN  IF r.ok THEN Ok(PyBool(TRUE))
        ELSE IF r.exc \in {"ValueError", "TypeError"} THEN Ok(PyBool(FALSE))
        ELSE r

----------------------------------------------------------------------------
(* The file names the processors are given *)

\* longest stem enumerated before the ending of a file name
MaxStemLen == 2

StemChars == {"d", "A", ".", " "}

Stems == UNION { [1..n -> StemChars] : n \in 0..MaxStemLen }

Endings ==
    { <<>>,
      <<"j", "s", "o", "n">>, <<"J", "S", "O", "N">>, <<"J", "s", "o", "n">>,
      <<"c", "s", "v">>, <<"C", "S", "V">>,
      <<"t", "x", "t">>, <<"j", "s", "o">>, <<"j", "s", "o", "n", " ">>,
      <<"c", "s", "v", "x">> }

FileNames ==
    { None, PyInt(123) }
    \cup { PyText(stem \o ending) : stem \in Stems, ending \in Endings }
    \cup { PyText(stem \o <<".">> \o ending) : stem \in Stems, ending \in Endings }

----------------------------------------------------------------------------
(* A processor as a state machine: calls on one instance with one name *)

InitProcessor ==
    /\ processor \in {JsonFormatProcessor, CSVFormatProcessor}
    /\ file_name \in FileNames
    /\ arg = None
    /\ analyzer = NoObject
    /\ call = NoCall
    /\ ret = NoReturn
    /\ raw_data = None
    /\ disk = NoObject
    /\ log = <<>>

ValidateFileExtension ==
    /\ processor # NoObject
    /\ call' = [op |-> "_validate_file_extension", a |-> file_name]
    /\ ret' = validate_file_extension(processor, file_name)
    /\ UNCHANGED <<arg, analyzer, processor, file_name, raw_data, disk, log>>

IsSupportedFile ==
    /\ processor # NoObject
    /\ call' = [op |-> "is_supported_file", a |-> file_name]
    /\ ret' = is_supported_file(processor, file_name)
    /\ UNCHANGED <<arg, analyzer, processor, file_name, raw_data, disk, log>>

NextProcessor ==
    \/ ValidateFileExtension
    \/ IsSupportedFile

SpecProcessor == InitProcessor /\ [][NextProcessor]_vars

----------------------------------------------------------------------------
(* JSON text.  A str of JSON is modelled by its lexical units: PyText(toks) *)
(* where each element is a punctuation mark, a blank, a literal or a whole *)
(* string literal.  json.loads is a recursive-descent parse of the units.  *)

RaiseWith(exc, msg, args) == [ok |-> FALSE, exc |-> exc, msg |-> msg, args |-> args]

JsonStringToks ==
    {"\"Tests\"", "\"name\"", "\"a\"", "\"status\"", "\"pass\"", "\"durationMs\""}

\* the text a string literal denotes
StrOfTok(tok) ==
    CASE tok = "\"Tests\"" -> "Tests"
      [] tok = "\"name\"" -> "name"
      [] tok = "\"a\"" -> "a"
      [] tok = "\"status\"" -> "status"
      [] tok = "\"pass\"" -> "pass"
      [] tok = "\"durationMs\"" -> "durationMs"

EmptyDict == [k \in {} |-> None]

\* d[key] = v
DictSet(d, key, v) == [k \in DOMAIN d \cup {key} |-> IF k = key THEN v ELSE d[k]]

RECURSIVE SkipWs(_, _)
SkipWs(toks, i) ==
    IF i <= Len(toks) /\ IsSpace(toks[i]) THEN SkipWs(toks, i + 1) ELSE i

Parsed(v, next) == [ok |-> TRUE, v |-> v, next |-> next]

NotParsed == [ok |-> FALSE]

RECURSIVE ParseValue(_, _)
RECURSIVE ParseElements(_, _, _)
RECURSIVE ParseMembers(_, _, _)

\* a JSON value starting at or after position i
ParseValue(toks, i) ==
    LET j == SkipWs(toks, i)
    IN  IF j > Len(toks) THEN NotParsed
        ELSE IF toks[j] = "null" THEN Parsed(None, j + 1)
        ELSE IF toks[j] = "1" THEN Parsed(PyInt(1), j + 1)
        ELSE IF toks[j] \in JsonStringToks THEN Parsed(PyStr(StrOfTok(toks[j])), j + 1)
        ELSE IF toks[j] = "["
        THEN LET k == SkipWs(toks, j + 1)
             IN  IF k <= Len(toks) /\ toks[k] = "]"
                 THEN Parsed(PyList(<<>>), k + 1)
                 ELSE ParseElements(toks, j + 1, <<>>)
        ELSE IF toks[j] = "{"
        THEN LET k == SkipWs(toks, j + 1)
             IN  IF k <= Len(toks) /\ toks[k] = "}"
                 THEN Parsed(PyDict(EmptyDict), k + 1)
                 ELSE ParseMembers(toks, j + 1, EmptyDict)
        ELSE NotParsed

\* the elements of an array: a value, then "," and more, or "]"
ParseElements(toks, i, items) ==
    LET e == ParseValue(toks, i)
    IN  IF ~e.ok THEN NotParsed
        ELSE LET k == SkipWs(toks, e.next)
             IN  IF k > Len(toks) THEN NotParsed
                 ELSE IF toks[k] = "," THEN ParseElements(toks, k + 1, Append(items, e.v))
                 ELSE IF toks[k] = "]" THEN Parsed(PyList(Append(items, e.v)), k + 1)
                 ELSE NotParsed

\* the members of an object: a string, ":", a value, then "," and more, or "}";
\* a key met again takes the later value
ParseMembers(toks, i, d) ==
    LET j == SkipWs(toks, i)
    IN  IF j > Len(toks) \/ toks[j] \notin JsonStringToks THEN NotParsed
        ELSE LET c == SkipWs(toks, j + 1)
             IN  IF c > Len(toks) \/ toks[c] # ":" THEN NotParsed
                 ELSE LET e == ParseValue(toks, c + 1)
                      IN  IF ~e.ok THEN NotParsed
                          ELSE LET k == SkipWs(toks, e.next)
                                   d2 == DictSet(d, StrOfTok(toks[j]), e.v)
                               IN  IF k > Len(toks) THEN NotParsed
                                   ELSE IF toks[k] = "," THEN ParseMembers(toks, k + 1, d2)
                                   ELSE IF toks[k] = "}" THEN Parsed(PyDict(d2), k + 1)
                                   ELSE NotParsed

\* json.loads: one value, blanks around it, nothing else
json_loads(toks) ==
    LET r == ParseValue(toks, 1)
    IN  IF r.ok /\ SkipWs(toks, r.next) > Len(toks)
        THEN Ok(r.v)
        ELSE Raise("JSONDecodeError", "{e}")

\* mutant: the isinstance(parsed_data, dict) test is left out
JsonFormatProcessor_parse_content_AnyValue(raw) ==
    IF raw.t # "str"
    THEN Raise("TypeError", "Raw data must be a string")
    ELSE IF Strip(raw.chars) = <<>>
    THEN Raise("ValueError", "JSON content cannot be empty")
    ELSE LET parsed_data == json_loads(raw.chars)
         IN  IF ~parsed_data.ok
             THEN Raise("ValueError", "Invalid JSON format: {e}")
             ELSE Ok(parsed_data.v)

\* JsonFormatProcessor._parse_content
JsonFormatProcessor_parse_content(raw) ==
    IF raw.t # "str"
    THEN Raise("TypeError", "Raw data must be a string")
    ELSE IF Strip(raw.chars) = <<>>
    THEN Raise("ValueError", "JSON content cannot be empty")
    ELSE LET parsed_data == json_loads(raw.chars)
         IN  IF ~parsed_data.ok
             THEN Raise("ValueError", "Invalid JSON format: {e}")
             ELSE IF parsed_data.v.t # "dict"
             THEN RaiseWith("ValueError",
                            "Expected JSON object, got {type(parsed_data).__name__}",
                            <<parsed_data.v.t>>)
             ELSE Ok(parsed_data.v)

----------------------------------------------------------------------------
(* The raw JSON content the parser is given: every value up to a nesting   *)
(* depth written out, as written, blank-padded, with one unit missing, or  *)
(* with a stray unit after it                                              *)

\* deepest nesting of the JSON values enumerated
MaxJsonDepth == 1

JsonScalars == {None, PyInt(1), PyStr("a")}

JsonKeys == <<"Tests", "name">>

\* the values nested to a depth: scalars, empty containers, lists of one
\* value, objects of one key, and objects of both keys with a scalar name
RECURSIVE JsonValues(_)
JsonValues(depth) ==
    IF depth = 0
    THEN JsonScalars \cup {PyList(<<>>), PyDict(EmptyDict)}
    ELSE LET inner == JsonValues(depth - 1)
         IN  inner
             \cup { PyList(<<v>>) : v \in inner }
             \cup { PyDict([k \in {JsonKeys[i]} |-> v]) : i \in 1..Len(JsonKeys), v \in inner }
             \cup { PyDict([k \in {"Tests", "name"} |-> IF k = "Tests" THEN v ELSE name]) :
                    v \in inner, name \in JsonScalars }

TokOfStr(str) == CHOOSE tok \in JsonStringToks : StrOfTok(tok) = str

\* the value written as JSON, the keys of an object in the order of JsonKeys
RECURSIVE Dumps(_)
RECURSIVE DumpsElements(_, _)
RECURSIVE DumpsMembers(_, _)
Dumps(v) ==
    CASE v.t = "NoneType" -> <<"null">>
      [] v.t = "int" -> <<"1">>
      [] v.t = "str" -> <<TokOfStr(v.s)>>
      [] v.t = "list" -> <<"[">> \o DumpsElements(v.items, 1) \o <<"]">>
      [] v.t = "dict" ->
            <<"{">>
            \o DumpsMembers(v.d, SelectSeq(JsonKeys, LAMBDA key : key \in DOMAIN v.d))
            \o <<"}">>

DumpsElements(items, i) ==
    IF i > Len(items) THEN <<>>
    ELSE Dumps(items[i])
         \o (IF i < Len(items) THEN <<",">> ELSE <<>>)
         \o DumpsElements(items, i + 1)

DumpsMembers(d, keys) ==
    IF keys = <<>> THEN <<>>
    ELSE <<TokOfStr(Head(keys)), ":">> \o Dumps(d[Head(keys)])
         \o (IF Len(keys) > 1 THEN <<",">> ELSE <<>>)
         \o DumpsMembers(d, Tail(keys))

\* toks without its i-th unit
Without(toks, i) == SubSeq(toks, 1, i - 1) \o SubSeq(toks, i + 1, Len(toks))

JsonTexts ==
    UNION { LET toks == Dumps(v)
            IN  {toks, <<" ">> \o toks \o <<" ">>, toks \o <<"x">>, toks \o <<" ", "1">>}
                \cup { Without(toks, i) : i \in 1..Len(toks) }
                \cup { SubSeq(toks, 1, i) \o <<" ">> \o SubSeq(toks, i + 1, Len(toks)) :
                       i \in 1..Len(toks) }
          : v \in JsonValues(MaxJsonDepth) }

JsonRawInputs ==
    {None, PyInt(1)} \cup { PyText(toks) : toks \in JsonTexts \cup {<<>>, <<" ">>, <<" ", " ">>} }

----------------------------------------------------------------------------
(* The JSON parser as a state machine: one parse of one raw content *)

InitJsonParser ==
    /\ processor = JsonFormatProcessor
    /\ raw_data \in JsonRawInputs
    /\ file_name = None
    /\ arg = None
    /\ analyzer = NoObject
    /\ call = NoCall
    /\ ret = NoReturn
    /\ disk = NoObject
    /\ log = <<>>

JsonParseContent ==
    /\ processor.t = "JsonFormatProcessor"
    /\ call' = [op |-> "_parse_content", a |-> None]
    /\ ret' = JsonFormatProcessor_parse_content(raw_data)
    /\ UNCHANGED <<arg, analyzer, processor, file_name, raw_data, disk, log>>

NextJsonParser == JsonParseContent

SpecJsonParser == InitJsonParser /\ [][NextJsonParser]_vars

----------------------------------------------------------------------------
(* CSV text.  A str of CSV is PyText(chars), one character per element.    *)
(* csv.reader is modelled for unquoted content: lines end at "\n", cells   *)
(* are separated by ",".                                                   *)

\* the lines StringIO(raw_data) yields
Lines(chars) ==
    LET pieces == Split(chars, "\n")
    IN  IF Last(pieces) = <<>> THEN SubSeq(pieces, 1, Len(pieces) - 1) ELSE pieces

\* csv.reader: a blank line is the row [], any other line its cells
csv_reader(chars) ==
    LET lines == Lines(chars)
    IN  [i \in 1..Len(lines) |-> IF lines[i] = <<>> THEN <<>> ELSE Split(lines[i], ",")]

\* the position of key among the items of a dict, 0 when it has none
ItemIndex(items, key) ==
    IF \E i \in 1..Len(items) : items[i][1] = key
    THEN CHOOSE i \in 1..Len(items) : items[i][1] = key
    ELSE 0

\* items of a dict after d[key] = v: a key met again keeps its place and
\* takes the later value
ItemsSet(items, key, v) ==
    IF ItemIndex(items, key) = 0
    THEN Append(items, <<key, v>>)
    ELSE [items EXCEPT ![ItemIndex(items, key)] = <<key, v>>]

RECURSIVE ZipItems(_, _, _, _)
ZipItems(fieldnames, row, i, items) ==
    IF i > Len(fieldnames) \/ i > Len(row) THEN items
    ELSE ZipItems(fieldnames, row, i + 1,
                  ItemsSet(items, PyText(fieldnames[i]), PyText(row[i])))

RECURSIVE RestvalItems(_, _, _)
RestvalItems(fieldnames, i, items) ==
    IF i > Len(fieldnames) THEN items
    ELSE RestvalItems(fieldnames, i + 1, ItemsSet(items, PyText(fieldnames[i]), None))

\* csv.DictReader.__next__ for one row: dict(zip(fieldnames, row)), the
\* surplus cells under the key None, the missing ones as None
DictReader_row(fieldnames, row) ==
    LET d == ZipItems(fieldnames, row, 1, <<>>)
    IN  IF Len(fieldnames) < Len(row)
        THEN ItemsSet(d, None,
                      PyList([i \in 1..(Len(row) - Len(fieldnames)) |->
                                 PyText(row[Len(fieldnames) + i])]))
        ELSE IF Len(fieldnames) > Len(row)
        THEN RestvalItems(fieldnames, Len(row) + 1, d)
        ELSE d

\* csv.DictReader: the first row gives the field names, blank rows after it
\* are skipped, every other row gives a dict
csv_DictReader(chars) ==
    LET rows == csv_reader(chars)
        data == SelectSeq(Tail(rows), LAMBDA row : row # <<>>)
    IN  [i \in 1..Len(data) |-> DictReader_row(Head(rows), data[i])]

DecimalDigits == <<"0", "1", "2", "3", "4", "5", "6", "7", "8", "9">>

\* characters str.isdigit accepts and int() does not: SUPERSCRIPT TWO
\* (U+00B2), written here "^2", stands for them
OtherDigits == {"^2"}

IsDecimal(c) == \E i \in 1..10 : DecimalDigits[i] = c

\* str.isdigit
isdigit(chars) ==
    /\ chars # <<>>
    /\ \A i \in 1..Len(chars) : IsDecimal(chars[i]) \/ chars[i] \in OtherDigits

DigitValue(c) == (CHOOSE i \in 1..10 : DecimalDigits[i] = c) - 1

RECURSIVE DecimalValue(_)
DecimalValue(chars) ==
    IF chars = <<>> THEN 0
    ELSE 10 * DecimalValue(SubSeq(chars, 1, Len(chars) - 1)) + DigitValue(Last(chars))

\* int(value) of a text isdigit accepts
int(chars) ==
    IF \A i \in 1..Len(chars) : IsDecimal(chars[i])
    THEN Ok(PyInt(DecimalValue(chars)))
    ELSE Raise("ValueError", "invalid literal for int() with base 10: {value}")

\* int(value) if value.isdigit() else value
CleanValue(value) ==
    IF value.t # "str"
    THEN Raise("AttributeError", "'{type}' object has no attribute 'isdigit'")
    ELSE IF isdigit(value.chars) THEN int(value.chars)
    ELSE Ok(value)

\* the inner loop of _parse_content over row.items(): the keys that are
\* None or empty are passed over, the others stripped
CleanRow(items) ==
    LET step[i \in 0..Len(items)] ==
            IF i = 0 THEN Ok(EmptyDict)
            ELSE IF ~step[i - 1].ok THEN step[i - 1]
            ELSE IF items[i][1] = None \/ items[i][1].chars = <<>> THEN step[i - 1]
            ELSE LET value == CleanValue(items[i][2])
                 IN  IF ~value.ok THEN value
                     ELSE Ok(DictSet(step[i - 1].v, Strip(items[i][1].chars), value.v))
    IN  step[Len(items)]

\* mutant: the rows before the one that fails are returned
CSVFormatProcessor_parse_content_KeepsRowsBefore(raw) ==
    IF raw.t # "str"
    THEN Raise("TypeError", "Raw data must be a string")
    ELSE IF Strip(raw.chars) = <<>>
    THEN Raise("ValueError", "CSV content cannot be empty")
    ELSE LET csv_reader_rows == csv_DictReader(raw.chars)
             clean == [i \in 1..Len(csv_reader_rows) |-> CleanRow(csv_reader_rows[i])]
             kept == IF \E i \in 1..Len(clean) : ~clean[i].ok
                     THEN (CHOOSE i \in 1..Len(clean) :
                               ~clean[i].ok /\ \A j \in 1..(i - 1) : clean[j].ok) - 1
                     ELSE Len(clean)
         IN  Ok(PyDict([k \in {"Tests"} |->
                           PyList([i \in 1..kept |-> PyDict(clean[i].v)])]))

\* mutant: a content with no data row gives the empty dict
CSVFormatProcessor_parse_content_EmptyWithoutRows(raw) ==
    IF raw.t # "str"
    THEN Raise("TypeError", "Raw data must be a string")
    ELSE IF Strip(raw.chars) = <<>>
    THEN Raise("ValueError", "CSV content cannot be empty")
    ELSE LET csv_reader_rows == csv_DictReader(raw.chars)
             clean == [i \in 1..Len(csv_reader_rows) |-> CleanRow(csv_reader_rows[i])]
         IN  IF \E i \in 1..Len(clean) : ~clean[i].ok
             THEN Raise("ValueError", "CSV parsing error: {e}")
             ELSE IF clean = <<>>
             THEN Ok(PyDict(EmptyDict))
             ELSE Ok(PyDict([k \in {"Tests"} |->
                                PyList([i \in 1..Len(clean) |-> PyDict(clean[i].v)])]))

\* CSVFormatProcessor._parse_content
CSVFormatProcessor_parse_content(raw) ==
    IF raw.t # "str"
    THEN Raise("TypeError", "Raw data must be a string")
    ELSE IF Strip(raw.chars) = <<>>
    THEN Raise("ValueError", "CSV content cannot be empty")
    ELSE LET csv_reader_rows == csv_DictReader(raw.chars)
             clean == [i \in 1..Len(csv_reader_rows) |-> CleanRow(csv_reader_rows[i])]
         IN  IF \E i \in 1..Len(clean) : ~clean[i].ok
             THEN Raise("ValueError", "CSV parsing error: {e}")
             ELSE Ok(PyDict([k \in {"Tests"} |->
                                PyList([i \in 1..Len(clean) |-> PyDict(clean[i].v)])]))

----------------------------------------------------------------------------
(* The raw CSV content the parser is given: a header line and up to        *)
(* MaxRows lines after it, each a blank line or a row of cells, one cell   *)
(* fewer than the header has, as many, or one more                         *)

\* most lines after the header
MaxRows == 2

Chars(str) ==
    CASE str = "" -> <<>>
      [] str = " " -> <<" ">>
      [] str = "a" -> <<"a">>
      [] str = "b" -> <<"b">>
      [] str = " a" -> <<" ", "a">>
      [] str = "b " -> <<"b", " ">>
      [] str = "x" -> <<"x">>
      [] str = "07" -> <<"0", "7">>
      [] str = "^2" -> <<"^2">>
      [] str = "status" -> <<"s", "t", "a", "t", "u", "s">>
      [] str = "durationMs" -> <<"d", "u", "r", "a", "t", "i", "o", "n", "M", "s">>
      [] str = "pass" -> <<"p", "a", "s", "s">>

CsvHeaders ==
    { <<>>, <<"a">>, <<" a", "b ">>, <<"a", "">>, <<"a", " ">>, <<"a", "a">>, <<"a", " a">> }

CsvCells == {"07", "x", "^2"}

\* the lines after a header of n names: the blank line, the rows of n cells,
\* those of n - 1, and rows of n + 1
CsvRowsOf(n) ==
    {<<>>}
    \cup [1..n -> CsvCells]
    \cup (IF n > 0 THEN [1..(n - 1) -> CsvCells] ELSE {})
    \cup { [i \in 1..(n + 1) |-> IF i <= n THEN "07" ELSE cell] : cell \in {"x", "^2"} }

RECURSIVE JoinChars(_, _)
JoinChars(pieces, sep) ==
    IF pieces = <<>> THEN <<>>
    ELSE IF Len(pieces) = 1 THEN Head(pieces)
    ELSE Head(pieces) \o <<sep>> \o JoinChars(Tail(pieces), sep)

CsvLine(cells) == JoinChars([i \in 1..Len(cells) |-> Chars(cells[i])], ",")

CsvTexts ==
    UNION { UNION { { JoinChars(<<CsvLine(header)>>
                                \o [i \in 1..k |-> CsvLine(rows[i])], "\n")
                      : rows \in [1..k -> CsvRowsOf(Len(header))] }
                    : k \in 0..MaxRows }
            : header \in CsvHeaders }

CsvRawInputs ==
    {None, PyInt(1)} \cup { PyText(chars) : chars \in CsvTexts \cup {<<" ">>, <<" ", "\n">>} }

----------------------------------------------------------------------------
(* The CSV parser as a state machine: one parse of one raw content *)

InitCsvParser ==
    /\ processor = CSVFormatProcessor
    /\ raw_data \in CsvRawInputs
    /\ file_name = None
    /\ arg = None
    /\ analyzer = NoObject
    /\ call = NoCall
    /\ ret = NoReturn
    /\ disk = NoObject
    /\ log = <<>>

CsvParseContent ==
    /\ processor.t = "CSVFormatProcessor"
    /\ call' = [op |-> "_parse_content", a |-> None]
    /\ ret' = CSVFormatProcessor_parse_content(raw_data)
    /\ UNCHANGED <<arg, analyzer, processor, file_name, raw_data, disk, log>>

NextCsvParser == CsvParseContent

SpecCsvParser == InitCsvParser /\ [][NextCsvParser]_vars

----------------------------------------------------------------------------
(* FileManager.file_reader and process_data.  The file system is seen      *)
(* through what it holds at the path: nothing, something open() or read()  *)
(* fails on, or a file with its text.                                      *)

Missing == [t |-> "missing"]

Unreadable == [t |-> "unreadable"]

File(content) == [t |-> "file", content |-> content]

\* FileManager.file_reader
file_reader(file_path, fs) ==
    IF fs.t = "missing"
    THEN RaiseWith("FileNotFoundError", "File not found: {file_path}", <<file_path>>)
    ELSE IF fs.t = "unreadable"
    THEN RaiseWith("OSError", "Error reading file: {str(e)}", <<file_path>>)
    ELSE Ok(fs.content)

\* self._parse_content of the processor at hand
parse_content(self, raw) ==
    IF self.t = "JsonFormatProcessor"
    THEN JsonFormatProcessor_parse_content(raw)
    ELSE CSVFormatProcessor_parse_content(raw)

CallOf(op, a) == [op |-> op, a |-> a]

\* what a call of process_data leaves: its outcome, the calls it made in
\* order, and its local raw_data
Outcome(r, calls, raw) == [ret |-> r, log |-> calls, raw_data |-> raw]

\* return self._parse_content(raw_data), after the calls made so far
ParseRead(self, raw, called) ==
    Outcome(parse_content(self, raw), Append(called, CallOf("_parse_content", raw)), raw)

\* the body of the try: the read, and the parse of what it returned
ReadAndParse(self, name, read, called) ==
    IF ~read.ok
    THEN Outcome(read, Append(called, CallOf("file_reader", name)), NoObject)
    ELSE ParseRead(self, read.v, Append(called, CallOf("file_reader", name)))

\* except (FileNotFoundError, IOError) as e: raise type(e)(error_msg)
ExceptFileError(name, tried) ==
    IF ~tried.ret.ok /\ tried.ret.exc \in {"FileNotFoundError", "OSError"}
    THEN Outcome(RaiseWith(tried.ret.exc, "File error processing '{file_name}': {e}",
                           <<name, tried.ret>>),
                 tried.log, tried.raw_data)
    ELSE tried

\* mutant: raise IOError(error_msg)
ExceptFileError_RaisesIOError(name, tried) ==
    IF ~tried.ret.ok /\ tried.ret.exc \in {"FileNotFoundError", "OSError"}
    THEN Outcome(RaiseWith("OSError", "File error processing '{file_name}': {e}",
                           <<name, tried.ret>>),
                 tried.log, tried.raw_data)
    ELSE tried

\* the rest of process_data once the name is validated, or the exception of
\* the validation
AfterValidation(validated, called, rest) ==
    IF ~validated.ok THEN Outcome(validated, called, NoObject) ELSE rest

\* mutant: the file error is re-raised as IOError whatever it was
process_data_RaisesIOError(self, name, fs) ==
    AfterValidation(validate_file_extension(self, name),
                    <<CallOf("_validate_file_extension", name)>>,
                    ExceptFileError_RaisesIOError(name,
                        ReadAndParse(self, name, file_reader(name, fs),
                                     <<CallOf("_validate_file_extension", name)>>)))

\* mutant: the file is read before its name is validated
process_data_ReadsFirst(self, name, fs) ==
    AfterValidation(validate_file_extension(self, name),
                    <<CallOf("file_reader", name), CallOf("_validate_file_extension", name)>>,
                    ExceptFileError(name,
                        ReadAndParse(self, name, file_reader(name, fs), <<>>)))

\* JsonFormatProcessor.process_data and CSVFormatProcessor.process_data, the
\* same code but for the word JSON or CSV in what they log
process_data(self, name, fs) ==
    AfterValidation(validate_file_extension(self, name),
                    <<CallOf("_validate_file_extension", name)>>,
                    ExceptFileError(name,
                        ReadAndParse(self, name, file_reader(name, fs),
                                     <<CallOf("_validate_file_extension", name)>>)))

----------------------------------------------------------------------------
(* process_data as a state machine: one call of it on one processor, one   *)
(* file name and one state of the file system                              *)

JsonContents ==
    { <<>>, <<" ">>,
      <<"{", "\"Tests\"", ":", "[", "]", "}">>,
      <<"{", "\"Tests\"", ":", "[", "{", "\"name\"", ":", "\"a\"", "}", "]", "}">>,
      <<"[", "1", "]">>,
      <<"{", "\"Tests\"", ":">> }

CsvContents ==
    { <<>>, <<" ">>,
      <<"a">>,
      <<"a", "\n", "0", "7">>,
      <<"a", ",", "b", "\n", "x">>,
      <<"a", "\n", "^2">> }

ContentsFor(self) == IF self.t = "JsonFormatProcessor" THEN JsonContents ELSE CsvContents

InitProcess ==
    /\ processor \in {JsonFormatProcessor, CSVFormatProcessor}
    /\ file_name \in FileNames
    /\ disk \in {Missing, Unreadable} \cup { File(PyText(c)) : c \in ContentsFor(processor) }
    /\ raw_data = NoObject
    /\ arg = None
    /\ analyzer = NoObject
    /\ call = NoCall
    /\ ret = NoReturn
    /\ log = <<>>

ProcessData ==
    /\ processor # NoObject
    /\ LET done == process_data(processor, file_name, disk)
       IN  /\ call' = CallOf("process_data", file_name)
           /\ ret' = done.ret
           /\ log' = done.log
           /\ raw_data' = done.raw_data
    /\ UNCHANGED <<arg, analyzer, processor, file_name, disk>>

NextProcess == ProcessData

SpecProcess == InitProcess /\ [][NextProcess]_vars

----------------------------------------------------------------------------
(* FileManager.file_exporter.  The file system is seen through the export  *)
(* directory: it can be made and written to, made but not written to, or   *)
(* not made at all; after a write it holds the file.  pandas is taken to   *)
(* write the frame it is given, in the format asked.                       *)

ExportDir == [t |-> "dir"]

ReadOnlyDir == [t |-> "readonly"]

NoExportDir == [t |-> "nodir"]

\* os.path.splitext(name)[1], name with no directory part: from the last
\* dot on, unless only dots come before it
splitext_ext(chars) ==
    IF ~Contains(chars, ".") THEN <<>>
    ELSE LET dotIndex == CHOOSE i \in 1..Len(chars) :
                             chars[i] = "." /\ \A j \in (i + 1)..Len(chars) : chars[j] # "."
         IN  IF \E i \in 1..(dotIndex - 1) : chars[i] # "."
             THEN SubSeq(chars, dotIndex, Len(chars))
             ELSE <<>>

\* os.path.normpath(os.path.join(current_dir, '..', 'data', 'export_files', file_name))
ExportPath(chars) == PyText(<<"../data/export_files/">> \o chars)

\* pd.DataFrame([dict_data]) for a dict, pd.DataFrame(dict_data) otherwise
DataFrame(dict_data) == IF dict_data.t = "dict" THEN PyList(<<dict_data>>) ELSE dict_data

\* what a call of file_exporter leaves: its outcome and the file system
Exported(r, fs) == [ret |-> r, disk |-> fs]

\* FileManager.file_exporter
file_exporter(name, dict_data, fs) ==
    IF Falsy(dict_data)
    THEN Exported(Raise("ValueError", "The dictionary cannot be empty"), fs)
    ELSE IF name.t # "str"
    THEN Exported(Raise("TypeError", "{os.path.join}"), fs)
    ELSE IF fs.t = "nodir"
    THEN Exported(Raise("OSError", "{os.makedirs}"), fs)
    ELSE LET file_extension == Lower(splitext_ext(name.chars))
             format == IF file_extension = <<".", "c", "s", "v">> THEN "csv"
                       ELSE IF file_extension = <<".", "j", "s", "o", "n">> THEN "json"
                       ELSE "none"
             written == IF format = "none"
                        THEN Exported(RaiseWith("ValueError",
                                 "Format not supported: {file_extension}. Supported formats: .csv, .json",
                                 <<file_extension>>), fs)
                        ELSE IF fs.t = "readonly"
                        THEN Exported(Raise("OSError", "{df.to_csv / df.to_json}"), fs)
                        ELSE Exported(Ok(ExportPath(name.chars)),
                                      File([format |-> format, df |-> DataFrame(dict_data)]))
         IN  IF ~written.ret.ok
             THEN Exported(RaiseWith("OSError", "Error writing the file: {str(e)}",
                                     <<written.ret>>), fs)
             ELSE written

----------------------------------------------------------------------------
(* The exporter as a state machine: one call on one file name, one value   *)
(* to export and one state of the export directory                         *)

ExportData ==
    { None, PyDict(EmptyDict), PyList(<<>>),
      PyDict([k \in {"numberOfTestCases"} |-> PyInt(2)]),
      PyList(<<PyDict([k \in {"numberOfTestCases"} |-> PyInt(2)])>>) }

InitExporter ==
    /\ file_name \in FileNames
    /\ arg \in ExportData
    /\ disk \in {ExportDir, ReadOnlyDir, NoExportDir}
    /\ processor = NoObject
    /\ analyzer = NoObject
    /\ raw_data = None
    /\ call = NoCall
    /\ ret = NoReturn
    /\ log = <<>>

FileExporter ==
    /\ call = NoCall
    /\ LET done == file_exporter(file_name, arg, disk)
       IN  /\ call' = CallOf("file_exporter", file_name)
           /\ ret' = done.ret
           /\ disk' = done.disk
    /\ UNCHANGED <<arg, analyzer, processor, file_name, raw_data, log>>

NextExporter == FileExporter

SpecExporter == InitExporter /\ [][NextExporter]_vars

----------------------------------------------------------------------------
(* Main: the body of the class, run once.  The file system is seen at two  *)
(* places, the path typed for the input and the export directory.  The     *)
(* last call made tells how far the body has run; an exception ends it.    *)

FileSystem(source, export) == [source |-> source, export |-> export]

\* the paths typed at the first prompt
MainPaths ==
    { PyText(<<"d", ".", "j", "s", "o", "n">>),
      PyText(<<"d", ".", "J", "S", "O", "N">>),
      PyText(<<"d", ".", "c", "s", "v">>),
      PyText(<<"d", ".", "t", "x", "t">>),
      PyText(<<"d">>),
      PyText(<<>>) }

\* the names typed at the second prompt
MainExportNames ==
    { PyText(<<"d", ".", "c", "s", "v">>),
      PyText(<<"d", ".", "j", "s", "o", "n">>),
      PyText(<<"d", ".", "t", "x", "t">>) }

\* what a source file can hold: {"Tests": [{"name": "a", "status": "pass",
\* "durationMs": 1}]} and other JSON texts, the delimited texts
\* "status,durationMs\npass,1" and "name\na", and nothing
MainContents ==
    { <<"{", "\"Tests\"", ":", "[", "{", "\"name\"", ":", "\"a\"", ",",
        "\"status\"", ":", "\"pass\"", ",", "\"durationMs\"", ":", "1", "}", "]", "}">>,
      <<"{", "\"Tests\"", ":", "[", "{", "\"status\"", ":", "\"pass\"", "}", "]", "}">>,
      <<"{", "\"Tests\"", ":", "[", "]", "}">>,
      <<"{", "\"name\"", ":", "\"a\"", "}">>,
      <<"{", "\"Tests\"", ":", "1", "}">>,
      <<"{", "}">>,
      <<"[", "1", "]">>,
      <<"{", "\"Tests\"", ":">>,
      <<"s", "t", "a", "t", "u", "s", ",", "d", "u", "r", "a", "t", "i", "o", "n", "M", "s",
        "\n", "p", "a", "s", "s", ",", "1">>,
      <<"n", "a", "m", "e", "\n", "a">>,
      <<>> }

MainSources ==
    {Missing, Unreadable}
    \cup { File(PyText(c)) : c \in MainContents }

InitMain ==
    /\ processor = JsonFormatProcessor
    /\ file_name \in MainPaths
    /\ disk \in { FileSystem(source, export) :
                    source \in MainSources, export \in {ExportDir, ReadOnlyDir, NoExportDir} }
    /\ arg = NoObject
    /\ analyzer = NoObject
    /\ raw_data = NoObject
    /\ call = NoCall
    /\ ret = NoReturn
    /\ log = <<>>

\* json_dict = data.process_data(file_name)
MainProcessData ==
    /\ call = NoCall
    /\ LET done == process_data(processor, file_name, disk.source)
       IN  /\ call' = CallOf("process_data", file_name)
           /\ ret' = done.ret
           /\ log' = done.log
           /\ raw_data' = done.raw_data
           /\ arg' = IF done.ret.ok THEN done.ret.v ELSE arg
    /\ UNCHANGED <<analyzer, processor, file_name, disk>>

\* analyzer = result_analyzer.ResultAnalyzer(json_dict)
MainConstruct ==
    /\ call.op = "process_data"
    /\ ret.ok
    /\ LET r == ResultAnalyzer_init(arg)
       IN  /\ analyzer' = IF r.ok THEN r.v ELSE NoObject
           /\ ret' = IF r.ok THEN Ok(None) ELSE r
    /\ call' = CallOf("__init__", None)
    /\ UNCHANGED <<arg, processor, file_name, raw_data, disk, log>>

\* results = analyzer.build_dictionary_of_results()
MainBuildResults ==
    /\ call.op = "__init__"
    /\ ret.ok
    /\ call' = CallOf("build_dictionary_of_results", None)
    /\ ret' = build_dictionary_of_results(analyzer)
    /\ UNCHANGED <<arg, analyzer, processor, file_name, raw_data, disk, log>>

\* file_manager.file_exporter(file_name_exporter, results)
MainExport ==
    /\ call.op = "build_dictionary_of_results"
    /\ ret.ok
    /\ \E file_name_exporter \in MainExportNames :
          LET done == file_exporter(file_name_exporter, ret.v, disk.export)
          IN  /\ call' = CallOf("file_exporter", file_name_exporter)
              /\ ret' = done.ret
              /\ disk' = [disk EXCEPT !.export = done.disk]
    /\ UNCHANGED <<arg, analyzer, processor, file_name, raw_data, log>>

NextMain ==
    \/ MainProcessData
    \/ MainConstruct
    \/ MainBuildResults
    \/ MainExport

SpecMain == InitMain /\ [][NextMain]_vars

----------------------------------------------------------------------------
(* The CSV parser followed by the analyzer: the container a successful     *)
(* parse returns is given to ResultAnalyzer and queried.  The parser model *)
(* writes a str as its characters and the analyzer model as one string;    *)
(* the container is the same Python object, written the second way.        *)

RECURSIVE Str(_)
Str(chars) == IF chars = <<>> THEN "" ELSE Head(chars) \o Str(Tail(chars))

\* a record of the container: its keys, and its values, a str as one string
\* and an int as it is
StrRecord(rec) ==
    PyDict([k \in { Str(key) : key \in DOMAIN rec.d } |->
               LET v == rec.d[CHOOSE key \in DOMAIN rec.d : Str(key) = k]
               IN  IF v.t = "str" THEN PyStr(Str(v.chars)) ELSE v])

\* the container _parse_content returned
StrContainer(c) ==
    PyDict([k \in DOMAIN c.d |->
               IF c.d[k].t = "list"
               THEN PyList([i \in 1..Len(c.d[k].items) |-> StrRecord(c.d[k].items[i])])
               ELSE c.d[k]])

\* the lines after a header of n names: the blank line, the rows of n cells,
\* a row of n - 1 and a row of n + 1
AnalysisRowsOf(n) ==
    {<<>>}
    \cup [1..n -> {"pass", "07", "^2"}]
    \cup (IF n > 0 THEN {[i \in 1..(n - 1) |-> "07"]} ELSE {})
    \cup {[i \in 1..(n + 1) |-> "07"]}

AnalysisCsvTexts ==
    UNION { UNION { { JoinChars(<<CsvLine(header)>>
                                \o [i \in 1..k |-> CsvLine(rows[i])], "\n")
                      : rows \in [1..k -> AnalysisRowsOf(Len(header))] }
                    : k \in 0..MaxRows }
            : header \in { <<>>, <<"status">>, <<"status", "durationMs">>, <<"a", " ">> } }

InitCsvAnalysis ==
    /\ processor = CSVFormatProcessor
    /\ raw_data \in {None} \cup { PyText(chars) : chars \in AnalysisCsvTexts }
    /\ file_name = None
    /\ arg = NoObject
    /\ analyzer = NoObject
    /\ call = NoCall
    /\ ret = NoReturn
    /\ disk = NoObject
    /\ log = <<>>

\* ResultAnalyzer(csv_dict), csv_dict what the parse returned
ConstructFromParsed ==
    /\ call.op = "_parse_content"
    /\ ret.ok
    /\ arg' = StrContainer(ret.v)
    /\ LET r == ResultAnalyzer_init(StrContainer(ret.v))
       IN  /\ analyzer' = IF r.ok THEN r.v ELSE NoObject
           /\ ret' = IF r.ok THEN Ok(None) ELSE r
    /\ call' = CallOf("__init__", None)
    /\ UNCHANGED <<processor, file_name, raw_data, disk, log>>

NextCsvAnalysis ==
    \/ CsvParseContent
    \/ ConstructFromParsed
    \/ GetNumberOfTestCases
    \/ CountPassedTests
    \/ CountFailedTests
    \/ GetTestDurations
    \/ CalculateAverageDuration
    \/ GetMinExecutionTime
    \/ GetMaxExecutionTime
    \/ GetTestSuccessRate
    \/ BuildDictionaryOfResults

SpecCsvAnalysis == InitCsvAnalysis /\ [][NextCsvAnalysis]_vars

----------------------------------------------------------------------------
(* What the claims are stated against: the records of the container, read  *)
(* directly, with no use of the analyzer's methods                         *)

\* the container {"Tests": []}
EmptyTestsContainer == PyDict([k \in {"Tests"} |-> PyList(<<>>)])

\* the records of the container the analyzer holds
Recs == analyzer.dictionary_data.d["Tests"].items

NRecs == Len(Recs)

HasField(i, key) == key \in DOMAIN Recs[i].d

\* the number of records whose status field is there and equals s
NWithStatus(s) ==
    Cardinality({i \in 1..NRecs : HasField(i, "status") /\ Recs[i].d["status"] = s})

AllHaveDuration == \A i \in 1..NRecs : HasField(i, "durationMs")

AllNumericDurations ==
    /\ AllHaveDuration
    /\ \A i \in 1..NRecs : Recs[i].d["durationMs"].t \in {"int", "float"}

\* the sum of the first k durations
RECURSIVE DurationSum(_)
DurationSum(k) ==
    IF k = 0 THEN 0 ELSE Recs[k].d["durationMs"].n + DurationSum(k - 1)

\* v is the least / the greatest of the durations
IsLeastDuration(v) ==
    /\ \E i \in 1..NRecs : Recs[i].d["durationMs"] = v
    /\ \A i \in 1..NRecs : NumLeq(v, Recs[i].d["durationMs"])

IsGreatestDuration(v) ==
    /\ \E i \in 1..NRecs : Recs[i].d["durationMs"] = v
    /\ \A i \in 1..NRecs : NumLeq(Recs[i].d["durationMs"], v)

\* v is the arithmetic mean of the durations
IsMeanDuration(v) ==
    /\ IsNumber(v)
    /\ Numer(v) * NRecs = DurationSum(NRecs) * Denom(v)

\* v is the percentage of records whose status is "pass"
IsPassPercentage(v) ==
    /\ IsNumber(v)
    /\ Numer(v) * NRecs = 100 * NWithStatus(PyStr("pass")) * Denom(v)

\* the failures of the spec's taxonomy, as the exceptions the code raises
NoData == Raise("ValueError", "No test cases available for duration calculation")

MissingField == Raise("KeyError", "Test case missing required field: 'durationMs'")

InvalidInputContainer == Raise("ValueError", "Dictionary data cannot be None or empty")

MissingKey == Raise("ValueError", "Dictionary must contain a 'Tests' key")

TypeMismatch == Raise("TypeError", "'Tests' must be a list")

Called(op) == call.op = op

----------------------------------------------------------------------------
(* C1: over {"Tests": []} construction succeeds, countTotal() returns 0    *)
(* and successRate() returns 0.0, while buildSummary() fails with NoData   *)
(* and returns no bundle of defaults.                                      *)
C1_EmptyTestsSummaryFails ==
    arg = EmptyTestsContainer =>
        /\ Called("__init__") => ret.ok /\ analyzer # NoObject
        /\ Called("_get_number_of_test_cases") => ret = Ok(PyInt(0))
        /\ Called("get_test_success_rate") => ret = Ok(PyFloat(0, 1))
        /\ Called("build_dictionary_of_results") => ret = NoData

C1_Witness ==
    /\ arg = EmptyTestsContainer
    /\ Called("build_dictionary_of_results")
    /\ ret = NoData

----------------------------------------------------------------------------
(* C2, as stated: whenever durations() succeeds, buildSummary() returns    *)
(* the bundle of the seven individual results; whenever durations() fails, *)
(* buildSummary() fails with that same failure.                            *)
C2_SummaryWheneverDurationsSucceed ==
    Called("build_dictionary_of_results") =>
        /\ NRecs > 0 /\ AllHaveDuration => ret.ok
        /\ NRecs = 0 => ret = NoData
        /\ NRecs > 0 /\ ~AllHaveDuration => ret = MissingField

(* C2, amended: buildSummary() returns the bundle of the seven individual  *)
(* results whenever durations() succeeds and every durationMs is a number; *)
(* it fails with TypeError, as averageDuration() does, when durations()    *)
(* succeeds but some durationMs is not a number; and it fails with the     *)
(* failure of durations() (NoData, MissingField) when durations() fails.   *)
C2_SummaryOfNumericDurations ==
    Called("build_dictionary_of_results") =>
        /\ NRecs > 0 /\ AllNumericDurations =>
              /\ ret.ok
              /\ ret.v.t = "dict"
              /\ DOMAIN ret.v.d = {"numberOfTestCases", "testCasesPassed",
                                   "testCasesFailed", "averageDuration",
                                   "minimumTestCasesExecutionTime",
                                   "maximumTestCasesExecutionTime", "successRate"}
              /\ ret.v.d.numberOfTestCases = PyInt(NRecs)
              /\ ret.v.d.testCasesPassed = PyInt(NWithStatus(PyStr("pass")))
              /\ ret.v.d.testCasesFailed = PyInt(NWithStatus(PyStr("failed")))
              /\ IsMeanDuration(ret.v.d.averageDuration)
              /\ IsLeastDuration(ret.v.d.minimumTestCasesExecutionTime)
              /\ IsGreatestDuration(ret.v.d.maximumTestCasesExecutionTime)
              /\ IsPassPercentage(ret.v.d.successRate)
        /\ NRecs > 0 /\ AllHaveDuration /\ ~AllNumericDurations =>
              ~ret.ok /\ ret.exc = "TypeError"
        /\ NRecs = 0 => ret = NoData
        /\ NRecs > 0 /\ ~AllHaveDuration => ret = MissingField

C2_Witness ==
    /\ Called("build_dictionary_of_results")
    /\ ret.ok
    /\ NRecs = 2
    /\ ret.v.d.testCasesPassed = PyInt(1)
    /\ ret.v.d.testCasesFailed = PyInt(0)

----------------------------------------------------------------------------
(* C3: successRate() never fails; it returns 0.0 when there are no records *)
(* and otherwise 100 * (records with status "pass") / (records), a value   *)
(* in the closed range [0, 100].                                           *)
C3_SuccessRate ==
    Called("get_test_success_rate") =>
        /\ ret.ok
        /\ NRecs = 0 => ret.v = PyFloat(0, 1)
        /\ NRecs > 0 => IsPassPercentage(ret.v)
        /\ NumLeq(PyInt(0), ret.v) /\ NumLeq(ret.v, PyInt(100))

C3_Witness ==
    /\ Called("get_test_success_rate")
    /\ NRecs = 2
    /\ ret = Ok(PyFloat(50, 1))

----------------------------------------------------------------------------
(* C4: countByStatus(s) is the number of records whose status field equals *)
(* s exactly, the target being "pass" when none is given, and              *)
(* countFailed() is countByStatus("failed"); a record with no status field *)
(* matches no target and makes no call fail, and a status other than       *)
(* "pass" and "failed" is counted in neither of those two counts.          *)
C4_CountByStatus ==
    /\ Called("_count_passed_tests") =>
          ret = Ok(PyInt(NWithStatus(IF call.a = Omitted THEN PyStr("pass") ELSE call.a)))
    /\ Called("_count_failed_tests") => ret = Ok(PyInt(NWithStatus(PyStr("failed"))))

C4_Witness ==
    /\ Called("_count_passed_tests")
    /\ call.a = Omitted
    /\ NRecs = 2
    /\ ~HasField(1, "status")
    /\ ret = Ok(PyInt(1))

----------------------------------------------------------------------------
(* C5: for two distinct statuses s and s', countByStatus(s) +              *)
(* countByStatus(s') <= countTotal(); and countByStatus("pass") +          *)
(* countFailed() = countTotal() only when every record's status is "pass"  *)
(* or "failed".                                                            *)
C5_CountsWithinTotal ==
    /\ Called("_count_passed_tests") /\ call.a # Omitted =>
          \A s2 \in StatusTargets \ {call.a} :
              ret.v.n + NWithStatus(s2) <= NRecs
    /\ Called("_count_failed_tests") =>
          LET passed == NWithStatus(PyStr("pass"))
              total == NRecs
          IN  /\ passed + ret.v.n <= total
              /\ passed + ret.v.n = total =>
                    \A i \in 1..NRecs :
                        /\ HasField(i, "status")
                        /\ Recs[i].d["status"] \in {PyStr("pass"), PyStr("failed")}

C5_Witness ==
    /\ Called("_count_failed_tests")
    /\ NRecs = 2
    /\ ret = Ok(PyInt(1))
    /\ NWithStatus(PyStr("pass")) = 1

----------------------------------------------------------------------------
(* C6: durations() returns the durationMs of every record in record order  *)
(* (so as many values as there are records) when the Tests sequence is     *)
(* non-empty and every record has durationMs; it fails with MissingField   *)
(* when the sequence is non-empty and some record, at any position, lacks  *)
(* durationMs; it fails with NoData when the sequence is empty.            *)
C6_Durations ==
    Called("_get_test_durations") =>
        /\ NRecs > 0 /\ AllHaveDuration =>
              /\ ret.ok
              /\ ret.v.t = "list"
              /\ Len(ret.v.items) = NRecs
              /\ \A i \in 1..NRecs : ret.v.items[i] = Recs[i].d["durationMs"]
        /\ NRecs > 0 /\ ~AllHaveDuration => ret = MissingField
        /\ NRecs = 0 => ret = NoData

C6_Witness ==
    /\ Called("_get_test_durations")
    /\ NRecs = 2
    /\ HasField(1, "durationMs")
    /\ ~HasField(2, "durationMs")
    /\ ret = MissingField

----------------------------------------------------------------------------
(* C7: on a non-empty record set whose every durationMs is a number,       *)
(* averageDuration() is the arithmetic mean of the durations,              *)
(* minDuration() their least and maxDuration() their greatest element, so  *)
(* that min <= average <= max; for one record all three are its duration.  *)
C7_MinAverageMax ==
    analyzer # NoObject /\ NRecs > 0 /\ AllNumericDurations =>
        /\ Called("_calculate_average_duration_of_test_execution") =>
              /\ ret.ok
              /\ IsMeanDuration(ret.v)
              /\ \A lo, hi \in {Recs[i].d["durationMs"] : i \in 1..NRecs} :
                    IsLeastDuration(lo) /\ IsGreatestDuration(hi) =>
                        NumLeq(lo, ret.v) /\ NumLeq(ret.v, hi)
              /\ NRecs = 1 => ret.v = Recs[1].d["durationMs"]
        /\ Called("_get_min_test_cases_execution_time") =>
              /\ ret.ok
              /\ IsLeastDuration(ret.v)
              /\ NRecs = 1 => ret.v = Recs[1].d["durationMs"]
        /\ Called("_get_max_test_cases_execution_time") =>
              /\ ret.ok
              /\ IsGreatestDuration(ret.v)
              /\ NRecs = 1 => ret.v = Recs[1].d["durationMs"]

C7_Witness ==
    /\ Called("_calculate_average_duration_of_test_execution")
    /\ NRecs = 2
    /\ Recs[1].d = [k \in {"durationMs"} |-> PyInt(5)]
    /\ Recs[2].d = [k \in {"durationMs"} |-> PyInt(0)]
    /\ ret = Ok(PyFloat(5, 2))

----------------------------------------------------------------------------
(* C8: construction fails with InvalidInput when the container is None or  *)
(* empty, with MissingKey when a non-empty container has no "Tests" key,   *)
(* with TypeMismatch when "Tests" is there but is not a list; in every     *)
(* other case, an empty "Tests" list included, it succeeds and the         *)
(* analyzer holds the given container.                                     *)
C8_Construction ==
    Called("__init__") =>
        LET absentOrEmpty == arg = None \/ (arg.t = "dict" /\ DOMAIN arg.d = {})
            hasTests == ~absentOrEmpty /\ "Tests" \in DOMAIN arg.d
        IN  /\ absentOrEmpty => ret = InvalidInputContainer /\ analyzer = NoObject
            /\ ~absentOrEmpty /\ ~hasTests => ret = MissingKey /\ analyzer = NoObject
            /\ hasTests /\ arg.d["Tests"].t # "list" =>
                  ret = TypeMismatch /\ analyzer = NoObject
            /\ hasTests /\ arg.d["Tests"].t = "list" =>
                  /\ ret.ok
                  /\ analyzer # NoObject
                  /\ analyzer.dictionary_data = arg

C8_Witness ==
    /\ Called("__init__")
    /\ arg = EmptyTestsContainer
    /\ ret.ok
    /\ analyzer # NoObject
    /\ analyzer.dictionary_data = arg

----------------------------------------------------------------------------
(* What C9 and C10 are stated against: the file name read character by     *)
(* character                                                               *)

NameIsText == file_name.t = "str"

NameIsBlank == \A i \in 1..Len(file_name.chars) : IsSpace(file_name.chars[i])

\* position i holds the last extension separator of the name
IsLastSeparator(i) ==
    /\ file_name.chars[i] = "."
    /\ \A j \in (i+1)..Len(file_name.chars) : file_name.chars[j] # "."

\* the name's suffix after position i is extension e, letter case aside
SuffixIs(i, e) ==
    /\ Len(file_name.chars) - i = Len(e)
    /\ \A k \in 1..Len(e) : LowerChar(file_name.chars[i + k]) = e[k]

AcceptedExtensions ==
    {processor.supported_extensions[i] : i \in 1..Len(processor.supported_extensions)}

NameIsAccepted ==
    /\ NameIsText
    /\ ~NameIsBlank
    /\ \E i \in 1..Len(file_name.chars) :
          IsLastSeparator(i) /\ \E e \in AcceptedExtensions : SuffixIs(i, e)

InvalidInputName ==
    { Raise("TypeError", "File name must be a string"),
      Raise("ValueError", "File name cannot be empty") }

UnsupportedFormat ==
    { Raise("ValueError", "File '{file_name}' has no extension. Supported: {supported_extensions}"),
      Raise("ValueError", "Invalid extension '.{file_extension}'. Supported: {supported_extensions}") }

----------------------------------------------------------------------------
(* C9: validate succeeds exactly when the file name is text, is not empty  *)
(* or whitespace-only, has a separator '.', and its suffix after the last  *)
(* separator, lower-cased, is one of the accepted extensions; it fails     *)
(* with InvalidInput when the name is not text or is blank, and with       *)
(* UnsupportedFormat when there is no separator or the suffix is not       *)
(* accepted.                                                               *)
C9_Validate ==
    Called("_validate_file_extension") =>
        /\ ret.ok <=> NameIsAccepted
        /\ ~NameIsText => ret \in InvalidInputName
        /\ NameIsText /\ NameIsBlank => ret \in InvalidInputName
        /\ NameIsText /\ ~NameIsBlank /\ ~NameIsAccepted => ret \in UnsupportedFormat

C9_Witness ==
    /\ Called("_validate_file_extension")
    /\ processor = JsonFormatProcessor
    /\ file_name = PyText(<<".", "d", ".", "J", "S", "O", "N">>)
    /\ ret = Ok(None)

----------------------------------------------------------------------------
(* C10: isSupported never fails, whatever it is given: it returns true     *)
(* exactly when validate succeeds on the name and false on every name on   *)
(* which validate fails.                                                   *)
C10_IsSupported ==
    Called("is_supported_file") => ret = Ok(PyBool(NameIsAccepted))

C10_Witness ==
    /\ Called("is_supported_file")
    /\ file_name = PyInt(123)
    /\ ret = Ok(PyBool(FALSE))

----------------------------------------------------------------------------
(* What C13 is stated against: the raw content read as a text of JSON,     *)
(* with no use of the parser                                               *)

RawIsText == raw_data.t = "str"

RawIsBlank == \A i \in 1..Len(raw_data.chars) : IsSpace(raw_data.chars[i])

\* the content without its blanks, which JSON ignores between its units
RawUnits == SelectSeq(raw_data.chars, LAMBDA tok : ~IsSpace(tok))

\* every text that is well-formed JSON, among those of the model
WellFormedJson == { Dumps(v) : v \in JsonValues(MaxJsonDepth) }

RawIsWellFormed == RawUnits \in WellFormedJson

\* the kind of the top-level value of a well-formed text, read off its first unit
TopLevelKind ==
    CASE RawUnits[1] = "{" -> "dict"
      [] RawUnits[1] = "[" -> "list"
      [] RawUnits[1] = "null" -> "NoneType"
      [] RawUnits[1] = "1" -> "int"
      [] OTHER -> "str"

InvalidInputContent ==
    { Raise("TypeError", "Raw data must be a string"),
      Raise("ValueError", "JSON content cannot be empty") }

MalformedJson == Raise("ValueError", "Invalid JSON format: {e}")

SchemaMismatch(kind) ==
    RaiseWith("ValueError", "Expected JSON object, got {type(parsed_data).__name__}", <<kind>>)

----------------------------------------------------------------------------
----------------------------------------------------------------------------
(* What C14..C17 are stated against: the raw content read as a table, the  *)
(* first line its header, every non-blank line after it a data row         *)

RawLines == Lines(raw_data.chars)

Cells(line) == IF line = <<>> THEN <<>> ELSE Split(line, ",")

HeaderNames == Cells(RawLines[1])

DataRows == [i \in 1..(Len(RawLines) - 1) |-> Cells(RawLines[i + 1])]

\* the data rows, the blank lines left out
NonBlankRows == SelectSeq(DataRows, LAMBDA row : row # <<>>)

NColumns == Len(HeaderNames)

\* the name of column j as a record key
ColumnKey(j) == Strip(HeaderNames[j])

\* column j is named, and no later column has its name
IsNamedColumn(j) ==
    /\ ColumnKey(j) # <<>>
    /\ \A k \in (j + 1)..NColumns : ColumnKey(k) # ColumnKey(j)

OnlyDecimalDigits(cell) ==
    /\ cell # <<>>
    /\ \A i \in 1..Len(cell) : cell[i] \in {"0", "1", "2", "3", "4", "5", "6", "7", "8", "9"}

\* what the coercion policy makes of a cell
Coerced(cell) == IF OnlyDecimalDigits(cell) THEN PyInt(DecimalValue(cell)) ELSE PyText(cell)

RawIsTable == RawIsText /\ ~RawIsBlank

\* every data row has a cell for every column of the header
NoShortRow == \A i \in 1..Len(NonBlankRows) : Len(NonBlankRows[i]) >= NColumns

\* every data row has exactly the columns of the header
Rectangular == \A i \in 1..Len(NonBlankRows) : Len(NonBlankRows[i]) = NColumns

CsvRecords == ret.v.d["Tests"].items

InvalidCsvContent ==
    { Raise("TypeError", "Raw data must be a string"),
      Raise("ValueError", "CSV content cannot be empty") }

MalformedCsv == Raise("ValueError", "CSV parsing error: {e}")

----------------------------------------------------------------------------
(* C14: in the CSV parser a value of decimal digits only becomes the       *)
(* integer it denotes, every other value stays the text it was, and the    *)
(* coercion of a value never makes the parse fail.                         *)
C14_Coercion ==
    Called("_parse_content") /\ RawIsTable /\ NoShortRow =>
        /\ ret.ok
        /\ \A i \in 1..Len(NonBlankRows) : \A j \in 1..NColumns :
              IsNamedColumn(j) => CsvRecords[i].d[ColumnKey(j)] = Coerced(NonBlankRows[i][j])

----------------------------------------------------------------------------
(* C15: a header row followed by k data rows gives {"Tests": records} with *)
(* exactly k records, the i-th built from the i-th data row, each header   *)
(* field name a key of it with the row's value of that column.             *)
C15_OneRecordPerRow ==
    Called("_parse_content") /\ RawIsTable /\ Rectangular =>
        /\ ret.ok
        /\ DOMAIN ret.v.d = {"Tests"}
        /\ Len(CsvRecords) = Len(NonBlankRows)
        /\ \A i \in 1..Len(NonBlankRows) : \A j \in 1..NColumns :
              IsNamedColumn(j) =>
                  /\ ColumnKey(j) \in DOMAIN CsvRecords[i].d
                  /\ CsvRecords[i].d[ColumnKey(j)] \in
                         {PyText(NonBlankRows[i][j]), Coerced(NonBlankRows[i][j])}

----------------------------------------------------------------------------
(* C16: every key of every record the CSV parser returns is a header field *)
(* name with the surrounding whitespace removed, and none is the empty     *)
(* name: a column whose name is empty, also after trimming, is dropped.    *)
C16_TrimmedNonEmptyKeys ==
    Called("_parse_content") /\ RawIsTable /\ ret.ok =>
        \A i \in 1..Len(CsvRecords) : \A key \in DOMAIN CsvRecords[i].d :
            /\ key # <<>>
            /\ \E j \in 1..NColumns : key = ColumnKey(j)

----------------------------------------------------------------------------
(* C17: the CSV parser is all-or-nothing.  Raw content that is not text or *)
(* is empty or blank fails with InvalidInput; when some row fails the      *)
(* whole parse fails with MalformedData and returns no record; otherwise   *)
(* every data row has its record.  No outcome is a partial record set.     *)

\* the row has, in a named column, no cell or a cell int() refuses
RowFails(row) ==
    \E j \in 1..NColumns :
        /\ HeaderNames[j] # <<>>
        /\ \A k \in 1..(j - 1) : HeaderNames[k] # HeaderNames[j]
        /\ LET last == CHOOSE k \in j..NColumns :
                           /\ HeaderNames[k] = HeaderNames[j]
                           /\ \A m \in (k + 1)..NColumns : HeaderNames[m] # HeaderNames[j]
           IN  \/ Len(row) < last
               \/ /\ isdigit(row[last])
                  /\ ~OnlyDecimalDigits(row[last])

C17_AllOrNothing ==
    Called("_parse_content") =>
        /\ ~RawIsTable <=> ret \in InvalidCsvContent
        /\ RawIsTable /\ (\E i \in 1..Len(NonBlankRows) : RowFails(NonBlankRows[i])) =>
              ret = MalformedCsv
        /\ RawIsTable /\ (\A i \in 1..Len(NonBlankRows) : ~RowFails(NonBlankRows[i])) =>
              /\ ret.ok
              /\ Len(CsvRecords) = Len(NonBlankRows)

C17_Witness ==
    /\ Called("_parse_content")
    /\ raw_data = PyText(<<" ", "a", ",", "b", " ", "\n", "0", "7", ",", "x", "\n", "x">>)
    /\ ret = MalformedCsv

----------------------------------------------------------------------------
(* What C11, C12 and C19 are stated against: the file system at the path   *)
(* and the calls the processor made                                        *)

FileAccessFails == disk.t \in {"missing", "unreadable"}

\* the text the file holds
Content == disk.content

FormatName == IF processor.t = "JsonFormatProcessor" THEN "JSON" ELSE "CSV"

\* the position of the calls of op among the calls made
CallsOf(op) == { i \in 1..Len(log) : log[i].op = op }

\* the outcome of parsing the content, by the parser alone
ParseOutcome ==
    IF processor.t = "JsonFormatProcessor"
    THEN JsonFormatProcessor_parse_content(Content)
    ELSE CSVFormatProcessor_parse_content(Content)

----------------------------------------------------------------------------
(* C11: when the file access fails during processData, the error the       *)
(* caller gets carries the message "Error processing <format> file         *)
(* '<name>': <cause>", with JSON or CSV for the format, the file name and  *)
(* the original cause.                                                     *)
C11_FormatSpecificMessage ==
    Called("process_data") /\ NameIsAccepted /\ FileAccessFails =>
        /\ ~ret.ok
        /\ ret.msg = (IF FormatName = "JSON"
                      THEN "Error processing JSON file '{file_name}': {e}"
                      ELSE "Error processing CSV file '{file_name}': {e}")
        /\ ret.args[1] = file_name

----------------------------------------------------------------------------
(* C12: processData keeps the kind of an error.  A file that is not found  *)
(* gives NotFound, any other failure of the read gives IOFailure and never *)
(* NotFound; a failure of the parse reaches the caller as the parser       *)
(* raised it, kind and message.                                            *)
C12_ErrorKinds ==
    Called("process_data") /\ NameIsAccepted =>
        /\ disk = Missing => ~ret.ok /\ ret.exc = "FileNotFoundError"
        /\ disk = Unreadable => ~ret.ok /\ ret.exc = "OSError"
        /\ ~FileAccessFails => ret = ParseOutcome

C12_Witness ==
    /\ Called("process_data")
    /\ NameIsAccepted
    /\ disk = Unreadable
    /\ ret.exc = "OSError"

----------------------------------------------------------------------------
(* C19: processData validates the extension, then reads, then parses.  No  *)
(* read is made when the validation fails; otherwise the read is made once *)
(* and with the file name given; the parse is made only after a read that  *)
(* succeeded, and on what it returned.                                     *)
C19_ValidateReadParse ==
    Called("process_data") =>
        /\ log[1] = CallOf("_validate_file_extension", file_name)
        /\ ~NameIsAccepted => CallsOf("file_reader") = {}
        /\ NameIsAccepted =>
              /\ CallsOf("file_reader") = {2}
              /\ log[2].a = file_name
        /\ NameIsAccepted /\ FileAccessFails => CallsOf("_parse_content") = {}
        /\ NameIsAccepted /\ ~FileAccessFails =>
              /\ CallsOf("_parse_content") = {3}
              /\ log[3].a = Content
        /\ ~NameIsAccepted => CallsOf("_parse_content") = {}

C19_Witness ==
    /\ Called("process_data")
    /\ file_name = PyText(<<"d", ".", "j", "s", "o", "n">>)
    /\ Len(log) = 3
    /\ ret.ok

----------------------------------------------------------------------------
(* What C18 is stated against: the extension of the target file name, read *)
(* off the name                                                            *)

\* the name ends in a dot and ext, in any case, after a stem that is not
\* dots only
HasExtension(ext) ==
    /\ NameIsText
    /\ Len(file_name.chars) > Len(ext) + 1
    /\ LET n == Len(file_name.chars) - Len(ext)
       IN  /\ file_name.chars[n] = "."
           /\ Lower(SubSeq(file_name.chars, n + 1, Len(file_name.chars))) = ext
           /\ \E i \in 1..(n - 1) : file_name.chars[i] # "."

\* something to export, a name of text, and a directory to write to
Exportable == ~Falsy(arg) /\ NameIsText /\ disk # NoExportDir

FormatError == {"ValueError"}

WriteFailure == {"OSError"}

----------------------------------------------------------------------------
(* C18: the exporter writes CSV to a name with the extension .csv and JSON *)
(* to one with .json, in any case of the letters, and rejects every other  *)
(* extension with the format error its documentation promises, a           *)
(* ValueError, which is not the error a failed write gives.                *)
C18_ExportByExtension ==
    [][ call' = CallOf("file_exporter", file_name) /\ Exportable
        => /\ HasExtension(<<"c", "s", "v">>) /\ disk = ExportDir =>
                 ret'.ok /\ disk'.content.format = "csv"
           /\ HasExtension(<<"j", "s", "o", "n">>) /\ disk = ExportDir =>
                 ret'.ok /\ disk'.content.format = "json"
           /\ (HasExtension(<<"c", "s", "v">>) \/ HasExtension(<<"j", "s", "o", "n">>))
                 /\ disk = ReadOnlyDir =>
                 ~ret'.ok /\ ret'.exc \in WriteFailure
           /\ ~HasExtension(<<"c", "s", "v">>) /\ ~HasExtension(<<"j", "s", "o", "n">>) =>
                 ~ret'.ok /\ ret'.exc \in FormatError ]_vars

----------------------------------------------------------------------------
(* C20: no operation of the analyzer changes the container it was          *)
(* constructed from.  After any calls of the queries, successful or not,   *)
(* the container is what it was at construction, and a query repeated on   *)
(* the same analyzer gives the same result or the same failure.            *)
C20_QueriesLeaveContainer ==
    [][ /\ analyzer' # NoObject => analyzer'.dictionary_data = arg
        /\ analyzer # NoObject => analyzer' = analyzer
        /\ analyzer # NoObject /\ call' = call => ret' = ret ]_vars

C20_Witness ==
    /\ Called("build_dictionary_of_results")
    /\ ~ret.ok
    /\ NRecs = 2
    /\ analyzer.dictionary_data = arg

----------------------------------------------------------------------------
(* What C21 is stated against: the path typed, what the file system holds  *)
(* there, and how far the body of Main has run                             *)

PathEndsIn(ext) ==
    /\ Len(file_name.chars) > Len(ext)
    /\ SubSeq(file_name.chars, Len(file_name.chars) - Len(ext) + 1, Len(file_name.chars)) = ext

\* a file of test results as JSON, with what the analysis needs
SourceIsValidJson ==
    disk.source =
        File(PyText(<<"{", "\"Tests\"", ":", "[", "{", "\"name\"", ":", "\"a\"", ",",
                      "\"status\"", ":", "\"pass\"", ",", "\"durationMs\"", ":", "1",
                      "}", "]", "}">>))

\* the same results as delimited text: "status,durationMs\npass,1"
SourceIsValidCsv ==
    disk.source =
        File(PyText(<<"s", "t", "a", "t", "u", "s", ",",
                      "d", "u", "r", "a", "t", "i", "o", "n", "M", "s", "\n",
                      "p", "a", "s", "s", ",", "1">>))

\* a step before the export has failed
EndedBeforeExport ==
    /\ call.op \in {"process_data", "__init__", "build_dictionary_of_results"}
    /\ ~ret.ok

ExportReached == call.op = "file_exporter"

----------------------------------------------------------------------------
(* C21: the pipeline of the main program takes an input path that is a     *)
(* .json file or a .csv file.  For a .csv path with valid delimited text   *)
(* it goes through parsing and analysis and reaches the export step, as it *)
(* does for a .json path with valid JSON.                                  *)
C21_CsvOrJsonReachesExport ==
    \/ PathEndsIn(<<".", "j", "s", "o", "n">>) /\ SourceIsValidJson
    \/ PathEndsIn(<<".", "c", "s", "v">>) /\ SourceIsValidCsv
    => ~EndedBeforeExport

----------------------------------------------------------------------------
(* C22: every container a successful CSV parse returns is a non-empty      *)
(* mapping whose key "Tests" holds a sequence, so the construction of the  *)
(* analyzer on it never fails.  A CSV of a header only gives {"Tests": []},*)
(* on which construction, countTotal() and successRate() succeed and       *)
(* buildSummary() fails with NoData.                                       *)

\* the content is a header line and no data row
HeaderOnly == RawIsTable /\ NonBlankRows = <<>>

C22_CsvContainerIsCanonical ==
    /\ Called("_parse_content") /\ ret.ok =>
          /\ ret.v.t = "dict"
          /\ "Tests" \in DOMAIN ret.v.d
          /\ ret.v.d["Tests"].t = "list"
    /\ Called("__init__") => ret.ok /\ analyzer # NoObject
    /\ HeaderOnly =>
          /\ Called("_parse_content") => ret = Ok(EmptyTestsContainer)
          /\ Called("_get_number_of_test_cases") => ret = Ok(PyInt(0))
          /\ Called("get_test_success_rate") => ret = Ok(PyFloat(0, 1))
          /\ Called("build_dictionary_of_results") => ret = NoData

C22_Witness ==
    /\ HeaderOnly
    /\ raw_data = PyText(<<"s", "t", "a", "t", "u", "s", ",",
                           "d", "u", "r", "a", "t", "i", "o", "n", "M", "s", "\n">>)
    /\ Called("build_dictionary_of_results")
    /\ ret = NoData

----------------------------------------------------------------------------
(* C23: the CSV parser takes the two mismatches of row length differently. *)
(* A data row with fewer fields than the header makes the whole parse fail *)
(* with MalformedData; a data row with more fields than the header is      *)
(* accepted, its surplus values are dropped, and its record has exactly    *)
(* the fields the header names.                                            *)

SomeShortRow == \E i \in 1..Len(NonBlankRows) : Len(NonBlankRows[i]) < NColumns

SomeLongRow == \E i \in 1..Len(NonBlankRows) : Len(NonBlankRows[i]) > NColumns

\* the keys of the columns the header names
HeaderKeys == { ColumnKey(j) : j \in { k \in 1..NColumns : ColumnKey(k) # <<>> } }

C23_RowLengthAsymmetry ==
    Called("_parse_content") /\ RawIsTable =>
        /\ SomeShortRow => ret = MalformedCsv
        /\ ~SomeShortRow /\ SomeLongRow =>
              /\ ret.ok
              /\ Len(CsvRecords) = Len(NonBlankRows)
              /\ \A i \in 1..Len(CsvRecords) : DOMAIN CsvRecords[i].d = HeaderKeys

====
